---------------------------- MODULE Spec2Model ----------------------------
(***************************************************************************)
(* AI Blog Writer (src/app.py): one Streamlit script.  A run of the script *)
(* probes the local generation service (check_ollama_connection), reads    *)
(* the form, and on "Generate Blog" calls generate_blog_with_ollama, which *)
(* probes again, checks the model, POSTs the prompt and turns the outcome  *)
(* into one string; the script then shows that string as an error or as a  *)
(* blog post with a download button.                                       *)
(*                                                                         *)
(* Text is a sequence of characters (each a one-character string), so that *)
(* split, join, startswith, replace and the f-strings are computed as      *)
(* Python computes them.  The source file holds the two markers as the     *)
(* characters U+201A U+00F9 U+00E5 and U+201A U+00E8 U+00B1 U+00D4 U+220F  *)
(* U+00E8; a character outside ASCII, a backtick and an apostrophe are      *)
(* written by their code points.                                           *)
(*                                                                         *)
(* A JSON value (and the Python value json() makes of it) is a record with *)
(* a tag t: "str", "null", "arr", "obj".  A call's outcome is a return     *)
(* with a value or a raise with an exception.  The requests library is the *)
(* one that defines requests.exceptions.JSONDecodeError (2.27 and later):  *)
(* json() on a body that is not JSON raises a RequestException.            *)
(* The image count (line 129) is read and never used; it is left out.      *)
(***************************************************************************)
EXTENDS Integers, Sequences, FiniteSets, TLC

VARIABLES
    pc,               \* where the script run is: "sidebar", "main", "shown", "crashed"
    sidebar_get,      \* what the service answered to the GET of the sidebar (line 118)
    sidebar_probe,    \* the outcome of check_ollama_connection at line 118
    is_connected,     \* line 118
    available_models, \* line 118
    model_options,    \* lines 132-139
    ollama_model,     \* line 141
    blog_title,       \* line 125
    keywords,         \* line 126
    numb_words,       \* line 128
    submit_button,    \* line 151
    probe,            \* the outcome of the probe inside generate_blog_with_ollama (line 35)
    post_reply,       \* what the service answered to the POST of line 77, if one was sent
    posts,            \* the POSTs sent to /api/generate during the call, in order
    blog_content,     \* the outcome of generate_blog_with_ollama (line 159)
    alt_content,      \* the outcome of the call without its probe, on the result of the sidebar probe
    alt_posts,        \* the POSTs that call sent
    view,             \* what the main area shows: "none", "info", "warning", "error", "post"
    download,         \* data and file name of the download button (lines 174-179)
    exception         \* the exception that ended the run, if one did

vars == << pc, sidebar_get, sidebar_probe, is_connected, available_models, model_options,
           ollama_model, blog_title, keywords, numb_words, submit_button, probe, post_reply,
           posts, blog_content, alt_content, alt_posts, view, download, exception >>

-----------------------------------------------------------------------------
(* Bounds *)

\* the longest list of installed tags the service reports
MaxModels == 2

-----------------------------------------------------------------------------
(* The string literals of src/app.py, character by character *)

\* the three characters the source file holds before " **Error" (line 167, first test)
MarkerCross ==
    << "U+201A", "U+00F9", "U+00E5" >>

\* the six characters the source file holds before " **Timeout Error" (line 167, second test)
MarkerClock ==
    << "U+201A", "U+00E8", "U+00B1", "U+00D4", "U+220F", "U+00E8" >>

\* base URL of the service, imported from the configuration module (line 4)
ollama_api_key ==
    << "h", "t", "t", "p", ":", "/", "/", "l", "o", "c", "a", "l", "h", "o", "s", "t", ":",
       "1", "1", "4", "3", "4" >>

\* line 66
GeneratePath ==
    << "/", "a", "p", "i", "/", "g", "e", "n", "e", "r", "a", "t", "e" >>

\* lines 37-39
CannotConnectText ==
    << "U+201A", "U+00F9", "U+00E5", " ", "*", "*", "E", "r", "r", "o", "r", ":", " ", "C",
       "a", "n", "n", "o", "t", " ", "c", "o", "n", "n", "e", "c", "t", " ", "t", "o", " ",
       "O", "l", "l", "a", "m", "a", "*", "*", "\n", "\n", "M", "a", "k", "e", " ", "s", "u",
       "r", "e", " ", "O", "l", "l", "a", "m", "a", " ", "i", "s", " ", "r", "u", "n", "n",
       "i", "n", "g", ".", " ", "S", "t", "a", "r", "t", " ", "i", "t", " ", "w", "i", "t",
       "h", ":", "\n", "U+0060", "U+0060", "U+0060", "b", "a", "s", "h", "\n", "o", "l", "l",
       "a", "m", "a", " ", "s", "e", "r", "v", "e", "\n", "U+0060", "U+0060", "U+0060" >>

\* line 44, before {model}
NotFoundA ==
    << "U+201A", "U+00F9", "U+00E5", " ", "*", "*", "E", "r", "r", "o", "r", ":", " ", "M",
       "o", "d", "e", "l", " ", "U+0027" >>

\* line 44, after {model}
NotFoundB ==
    << "U+0027", " ", "n", "o", "t", " ", "f", "o", "u", "n", "d", "*", "*", "\n", "\n" >>

\* line 45
NotFoundC ==
    << "A", "v", "a", "i", "l", "a", "b", "l", "e", " ", "m", "o", "d", "e", "l", "s", ":",
       " " >>

\* line 45, the separator of join
CommaSpace ==
    << ",", " " >>

\* line 45, the text used when model_names is empty
NoneText ==
    << "N", "o", "n", "e" >>

\* lines 45-46
NotFoundD ==
    << "\n", "\n", "I", "n", "s", "t", "a", "l", "l", " ", "t", "h", "e", " ", "m", "o", "d",
       "e", "l", " ", "w", "i", "t", "h", ":", "\n" >>

\* line 47, before {model}
NotFoundE ==
    << "U+0060", "U+0060", "U+0060", "b", "a", "s", "h", "\n", "o", "l", "l", "a", "m", "a",
       " ", "p", "u", "l", "l", " " >>

\* line 47, after {model}
NotFoundF ==
    << "\n", "U+0060", "U+0060", "U+0060" >>

\* line 83, the default of error_data.get
DefaultError404 ==
    << "M", "o", "d", "e", "l", " ", "n", "o", "t", " ", "f", "o", "u", "n", "d" >>

\* line 85
Fallback404 ==
    << "4", "0", "4", " ", "N", "o", "t", " ", "F", "o", "u", "n", "d", " ", "-", " ", "M",
       "o", "d", "e", "l", " ", "m", "a", "y", " ", "n", "o", "t", " ", "e", "x", "i", "s",
       "t", " ", "o", "r", " ", "e", "n", "d", "p", "o", "i", "n", "t", " ", "i", "s", " ",
       "i", "n", "c", "o", "r", "r", "e", "c", "t" >>

\* line 87, before {error_msg}
Err404A ==
    << "U+201A", "U+00F9", "U+00E5", " ", "*", "*", "4", "0", "4", " ", "E", "r", "r", "o",
       "r", ":", " " >>

\* lines 87-89, up to {model}
Err404B ==
    << "*", "*", "\n", "\n", "M", "a", "k", "e", " ", "s", "u", "r", "e", ":", "\n", "1", ".",
       " ", "T", "h", "e", " ", "m", "o", "d", "e", "l", " ", "U+0027" >>

\* line 89
Err404C ==
    << "U+0027", " ", "i", "s", " ", "i", "n", "s", "t", "a", "l", "l", "e", "d", ":", " ",
       "U+0060", "o", "l", "l", "a", "m", "a", " ", "p", "u", "l", "l", " " >>

\* lines 89-91, up to {url}
Err404D ==
    << "U+0060", "\n", "2", ".", " ", "O", "l", "l", "a", "m", "a", " ", "i", "s", " ", "r",
       "u", "n", "n", "i", "n", "g", ":", " ", "U+0060", "o", "l", "l", "a", "m", "a", " ",
       "s", "e", "r", "v", "e", "U+0060", "\n", "3", ".", " ", "T", "h", "e", " ", "e", "n",
       "d", "p", "o", "i", "n", "t", " ", "i", "s", " ", "c", "o", "r", "r", "e", "c", "t",
       ":", " " >>

\* line 97, the default of result.get
NoResponseText ==
    << "E", "r", "r", "o", "r", ":", " ", "N", "o", " ", "r", "e", "s", "p", "o", "n", "s",
       "e", " ", "f", "r", "o", "m", " ", "O", "l", "l", "a", "m", "a" >>

\* lines 100-101
TimeoutText ==
    << "U+201A", "U+00E8", "U+00B1", "U+00D4", "U+220F", "U+00E8", " ", "*", "*", "T", "i",
       "m", "e", "o", "u", "t", " ", "E", "r", "r", "o", "r", "*", "*", "\n", "\n", "T", "h",
       "e", " ", "r", "e", "q", "u", "e", "s", "t", " ", "t", "o", "o", "k", " ", "t", "o",
       "o", " ", "l", "o", "n", "g", ".", " ", "T", "r", "y", " ", "r", "e", "d", "u", "c",
       "i", "n", "g", " ", "t", "h", "e", " ", "w", "o", "r", "d", " ", "c", "o", "u", "n",
       "t", " ", "o", "r", " ", "u", "s", "i", "n", "g", " ", "a", " ", "s", "m", "a", "l",
       "l", "e", "r", " ", "m", "o", "d", "e", "l", "." >>

\* lines 104-105, up to {ollama_api_key}
ConnErrA ==
    << "U+201A", "U+00F9", "U+00E5", " ", "*", "*", "C", "o", "n", "n", "e", "c", "t", "i",
       "o", "n", " ", "E", "r", "r", "o", "r", "*", "*", "\n", "\n", "C", "a", "n", "n", "o",
       "t", " ", "c", "o", "n", "n", "e", "c", "t", " ", "t", "o", " ", "O", "l", "l", "a",
       "m", "a", " ", "a", "t", " " >>

\* lines 105-107
ConnErrB ==
    << "\n", "\n", "M", "a", "k", "e", " ", "s", "u", "r", "e", " ", "O", "l", "l", "a", "m",
       "a", " ", "i", "s", " ", "r", "u", "n", "n", "i", "n", "g", ":", "\n", "U+0060",
       "U+0060", "U+0060", "b", "a", "s", "h", "\n", "o", "l", "l", "a", "m", "a", " ", "s",
       "e", "r", "v", "e", "\n", "U+0060", "U+0060", "U+0060" >>

\* line 110, before {str(e)}
GenericA ==
    << "U+201A", "U+00F9", "U+00E5", " ", "*", "*", "E", "r", "r", "o", "r", ":", " " >>

\* lines 110-111, up to {ollama_api_key}
GenericB ==
    << "*", "*", "\n", "\n", "C", "h", "e", "c", "k", " ", "t", "h", "a", "t", " ", "O", "l",
       "l", "a", "m", "a", " ", "i", "s", " ", "r", "u", "n", "n", "i", "n", "g", " ", "o",
       "n", " " >>

\* line 21 (the default model) and line 138
Llama2 ==
    << "l", "l", "a", "m", "a", "2" >>

\* line 138
Llama3 ==
    << "l", "l", "a", "m", "a", "3" >>

\* line 138
Mistral ==
    << "m", "i", "s", "t", "r", "a", "l" >>

\* line 138
Codellama ==
    << "c", "o", "d", "e", "l", "l", "a", "m", "a" >>

\* line 138
Phi ==
    << "p", "h", "i" >>

\* line 138
NeuralChat ==
    << "n", "e", "u", "r", "a", "l", "-", "c", "h", "a", "t" >>

\* lines 50-52, up to {blog_title}
PromptA ==
    << "W", "r", "i", "t", "e", " ", "a", " ", "c", "o", "m", "p", "r", "e", "h", "e", "n",
       "s", "i", "v", "e", " ", "b", "l", "o", "g", " ", "p", "o", "s", "t", " ", "w", "i",
       "t", "h", " ", "t", "h", "e", " ", "f", "o", "l", "l", "o", "w", "i", "n", "g", " ",
       "d", "e", "t", "a", "i", "l", "s", ":", "\n", " ", " ", " ", " ", "\n", "T", "i", "t",
       "l", "e", ":", " " >>

\* lines 52-53, up to {keywords}
PromptB ==
    << "\n", "K", "e", "y", "w", "o", "r", "d", "s", ":", " " >>

\* lines 53-54, up to {num_words}
PromptC ==
    << "\n", "T", "a", "r", "g", "e", "t", " ", "w", "o", "r", "d", " ", "c", "o", "u", "n",
       "t", ":", " " >>

\* lines 54-63, after {num_words}
PromptD ==
    << " ", "w", "o", "r", "d", "s", "\n", "\n", "P", "l", "e", "a", "s", "e", " ", "w", "r",
       "i", "t", "e", " ", "a", " ", "w", "e", "l", "l", "-", "s", "t", "r", "u", "c", "t",
       "u", "r", "e", "d", " ", "b", "l", "o", "g", " ", "p", "o", "s", "t", " ", "t", "h",
       "a", "t", ":", "\n", "1", ".", " ", "H", "a", "s", " ", "a", "n", " ", "e", "n", "g",
       "a", "g", "i", "n", "g", " ", "i", "n", "t", "r", "o", "d", "u", "c", "t", "i", "o",
       "n", "\n", "2", ".", " ", "C", "o", "v", "e", "r", "s", " ", "t", "h", "e", " ", "t",
       "o", "p", "i", "c", " ", "t", "h", "o", "r", "o", "u", "g", "h", "l", "y", "\n", "3",
       ".", " ", "U", "s", "e", "s", " ", "t", "h", "e", " ", "p", "r", "o", "v", "i", "d",
       "e", "d", " ", "k", "e", "y", "w", "o", "r", "d", "s", " ", "n", "a", "t", "u", "r",
       "a", "l", "l", "y", "\n", "4", ".", " ", "H", "a", "s", " ", "c", "l", "e", "a", "r",
       " ", "s", "e", "c", "t", "i", "o", "n", "s", " ", "a", "n", "d", " ", "p", "a", "r",
       "a", "g", "r", "a", "p", "h", "s", "\n", "5", ".", " ", "I", "n", "c", "l", "u", "d",
       "e", "s", " ", "a", " ", "c", "o", "n", "c", "l", "u", "s", "i", "o", "n", "\n", "\n",
       "B", "l", "o", "g", " ", "p", "o", "s", "t", ":" >>

\* line 177
BlogTxt ==
    << "_", "b", "l", "o", "g", ".", "t", "x", "t" >>

\* the decimal digits str() writes an integer with (line 54)
Digits ==
    << "0", "1", "2", "3", "4", "5", "6", "7", "8", "9" >>

\* raise_for_status (line 93): the text of an HTTPError for a 5xx status
ServerErrorText ==
    << " ", "S", "e", "r", "v", "e", "r", " ", "E", "r", "r", "o", "r", ":", " " >>

\* raise_for_status (line 93): the text of an HTTPError for a 4xx status
ClientErrorText ==
    << " ", "C", "l", "i", "e", "n", "t", " ", "E", "r", "r", "o", "r", ":", " " >>

\* raise_for_status (line 93)
ForUrlText ==
    << " ", "f", "o", "r", " ", "u", "r", "l", ":", " " >>

\* response.json() (lines 15, 82, 96): the text of the error for a body that is not JSON
ExpectingValueText ==
    << "E", "x", "p", "e", "c", "t", "i", "n", "g", " ", "v", "a", "l", "u", "e", ":", " ",
       "l", "i", "n", "e", " ", "1", " ", "c", "o", "l", "u", "m", "n", " ", "1", " ", "(",
       "c", "h", "a", "r", " ", "0", ")" >>

\* a tag the service may list (line 15)
Tag7b ==
    << "l", "l", "a", "m", "a", "2", ":", "7", "b" >>

\* a tag the service may list (line 15)
Tag13b ==
    << "l", "l", "a", "m", "a", "2", ":", "1", "3", "b" >>

\* a tag the service may list (line 15)
TagMistral ==
    << "m", "i", "s", "t", "r", "a", "l", ":", "l", "a", "t", "e", "s", "t" >>

\* a generated text (line 97)
HelloWorld ==
    << "H", "e", "l", "l", "o", " ", "w", "o", "r", "l", "d" >>

\* a generated text that happens to begin with the marker (line 97)
MarkedText ==
    << "U+201A", "U+00F9", "U+00E5", " ", "n", "o" >>

\* the error text the service sends on a 404 (line 83)
ModelMissing ==
    << "m", "o", "d", "e", "l", " ", "m", "i", "s", "s", "i", "n", "g" >>

\* the text of a TooManyRedirects raised by requests.post (line 77)
RedirectsText ==
    << "E", "x", "c", "e", "e", "d", "e", "d", " ", "3", "0", " ", "r", "e", "d", "i", "r",
       "e", "c", "t", "s", "." >>

\* the reason phrase of a 500 response (line 93)
ReasonInternal ==
    << "I", "n", "t", "e", "r", "n", "a", "l", " ", "S", "e", "r", "v", "e", "r", " ", "E",
       "r", "r", "o", "r" >>

\* the reason phrase of a 404 response
ReasonNotFound ==
    << "N", "o", "t", " ", "F", "o", "u", "n", "d" >>

\* the reason phrase of a 200 response
ReasonOK ==
    << "O", "K" >>

\* the reason phrase of a 403 response
ReasonForbidden ==
    << "F", "o", "r", "b", "i", "d", "d", "e", "n" >>

\* a title typed into the form (line 125)
TitleAI ==
    << "A", "I", " ", "b", "l", "o", "g" >>

\* keywords typed into the form (line 126)
KeywordsML ==
    << "m", "l" >>

-----------------------------------------------------------------------------
(* Python values, exceptions and outcomes *)

Str(s) == [t |-> "str", s |-> s]
Null == [t |-> "null"]
Arr(items) == [t |-> "arr", items |-> items]
Obj(f) == [t |-> "obj", f |-> f]
\* the fields of the JSON object {}
NoFields == [k \in {} |-> Null]

Exc(type, msg) == [type |-> type, msg |-> msg]
NoExc == Exc("none", << >>)
Return(v) == [kind |-> "return", value |-> v, exc |-> NoExc]
Raise(e) == [kind |-> "raise", value |-> Null, exc |-> e]

\* the classes of requests.exceptions (and the two builtins) an exception is an instance of
Bases(type) ==
    CASE type = "ConnectTimeout" ->
             {"ConnectTimeout", "ConnectionError", "Timeout", "RequestException"}
      [] type = "ReadTimeout" -> {"ReadTimeout", "Timeout", "RequestException"}
      [] type = "ConnectionError" -> {"ConnectionError", "RequestException"}
      [] type = "TooManyRedirects" -> {"TooManyRedirects", "RequestException"}
      [] type = "HTTPError" -> {"HTTPError", "RequestException"}
      [] type = "JSONDecodeError" ->
             {"JSONDecodeError", "InvalidJSONError", "RequestException", "ValueError"}
      [] OTHER -> {type}

IsInstance(e, cls) == cls \in Bases(e.type)

AttributeError == Exc("AttributeError", << >>)
TypeError == Exc("TypeError", << >>)

-----------------------------------------------------------------------------
(* The builtins the script uses *)

\* s.startswith(p)
StartsWith(s, p) == Len(s) >= Len(p) /\ SubSeq(s, 1, Len(p)) = p

\* s.split(":")[0]: the text before the first colon, all of s when it has none
RECURSIVE SplitFirst(_)
SplitFirst(s) ==
    IF s = << >> \/ Head(s) = ":" THEN << >> ELSE << Head(s) >> \o SplitFirst(Tail(s))

\* sep.join(list)
RECURSIVE Join(_, _)
Join(sep, list) ==
    IF list = << >> THEN << >>
    ELSE IF Len(list) = 1 THEN list[1]
    ELSE list[1] \o sep \o Join(sep, Tail(list))

\* x in list
In(x, list) == \E i \in 1..Len(list) : list[i] = x

\* list(dict.fromkeys(list)): each element once, at the place of its first occurrence
RECURSIVE FromKeys(_, _)
FromKeys(list, seen) ==
    IF list = << >> THEN seen
    ELSE FromKeys(Tail(list), IF In(Head(list), seen) THEN seen ELSE Append(seen, Head(list)))

\* s.replace(a, b) for one-character a and b
Replace(s, a, b) == [i \in 1..Len(s) |-> IF s[i] = a THEN b ELSE s[i]]

\* str(n) for n >= 0
RECURSIVE IntToStr(_)
IntToStr(n) ==
    IF n < 10 THEN << Digits[n + 1] >> ELSE IntToStr(n \div 10) \o << Digits[(n % 10) + 1] >>

\* d.get(k, default) on a JSON object
dict_get(d, k, default) == IF k \in DOMAIN d.f THEN d.f[k] ELSE default

\* how an f-string writes a value: a string as it is, None as "None"
Format(v) ==
    CASE v.t = "str" -> v.s
      [] v.t = "null" -> NoneText

-----------------------------------------------------------------------------
(* The service: what a GET or a POST can come back with *)

NotJson == [kind |-> "notjson", value |-> Null]
Json(v) == [kind |-> "json", value |-> v]

Resp(status, reason, body) ==
    [kind |-> "resp", status |-> status, reason |-> reason, body |-> body, exc |-> NoExc]
Threw(e) ==
    [kind |-> "exc", status |-> 0, reason |-> << >>, body |-> NotJson, exc |-> e]
\* no request was sent
NoReply == [kind |-> "none", status |-> 0, reason |-> << >>, body |-> NotJson, exc |-> NoExc]

Tags == {Tag7b, Tag13b, TagMistral}

\* the lists of distinct tags, at most MaxModels long, in any order
TagLists ==
    UNION {{l \in [1..n -> Tags] : \A i, j \in 1..n : i # j => l[i] # l[j]} : n \in 0..MaxModels}

\* the probed list of the example of the specification
ExampleTags == << Tag7b, Tag13b, TagMistral >>

TagsBody(l) == Json(Obj([models |-> Arr([i \in 1..Len(l) |-> Obj([name |-> Str(l[i])])])]))

\* bodies of a 200 answer to GET /api/tags that are not a list of named models
OddTagsBodies ==
    { NotJson,
      Json(Arr(<< >>)),
      Json(Obj(NoFields)),
      Json(Obj([models |-> Null])),
      Json(Obj([models |-> Arr(<< Str(Tag7b) >>)])),
      Json(Obj([models |-> Arr(<< Obj(NoFields) >>)])),
      Json(Obj([models |-> Arr(<< Obj([name |-> Null]) >>)])) }

TransportErrors ==
    { Exc("ConnectionError", << >>), Exc("ReadTimeout", << >>), Exc("ConnectTimeout", << >>),
      Exc("TooManyRedirects", RedirectsText) }

GetOutcomes ==
    {Threw(e) : e \in TransportErrors}
    \cup {Resp(500, ReasonInternal, NotJson), Resp(404, ReasonNotFound, NotJson)}
    \cup {Resp(200, ReasonOK, b) : b \in OddTagsBodies}
    \cup {Resp(200, ReasonOK, TagsBody(l)) : l \in TagLists \cup {ExampleTags}}

\* bodies of an answer to POST /api/generate
GenerateBodies ==
    { NotJson,
      Json(Arr(<< >>)),
      Json(Obj(NoFields)),
      Json(Obj([response |-> Str(HelloWorld)])),
      Json(Obj([response |-> Str(MarkedText)])),
      Json(Obj([response |-> Null])),
      Json(Obj([error |-> Str(ModelMissing)])) }

PostOutcomes ==
    {Threw(e) : e \in TransportErrors}
    \cup {Resp(200, ReasonOK, b) : b \in GenerateBodies}
    \cup {Resp(404, ReasonNotFound, b) :
            b \in {NotJson, Json(Arr(<< >>)), Json(Obj(NoFields)),
                   Json(Obj([error |-> Str(ModelMissing)]))}}
    \cup {Resp(500, ReasonInternal, NotJson), Resp(403, ReasonForbidden, Json(Obj(NoFields)))}

\* what the user types and picks in the form
Forms ==
    { [blog_title |-> << >>, keywords |-> << >>, numb_words |-> 250],
      [blog_title |-> TitleAI, keywords |-> << >>, numb_words |-> 250],
      [blog_title |-> TitleAI, keywords |-> KeywordsML, numb_words |-> 1000] }

-----------------------------------------------------------------------------
(* requests: response.json() and response.raise_for_status() *)

json(body) ==
    IF body.kind = "json" THEN Return(body.value)
    ELSE Raise(Exc("JSONDecodeError", ExpectingValueText))

raise_for_status(response, url) ==
    IF response.status >= 400 /\ response.status < 500
    THEN Raise(Exc("HTTPError", IntToStr(response.status) \o ClientErrorText
                                \o response.reason \o ForUrlText \o url))
    ELSE IF response.status >= 500 /\ response.status < 600
    THEN Raise(Exc("HTTPError", IntToStr(response.status) \o ServerErrorText
                                \o response.reason \o ForUrlText \o url))
    ELSE Return(Null)

-----------------------------------------------------------------------------
(* check_ollama_connection, lines 10-19 *)

\* [model.get("name", "") for model in models], line 16
names_of(models) ==
    CASE models.t = "arr" ->
             IF \E i \in 1..Len(models.items) : models.items[i].t # "obj"
             THEN Raise(AttributeError)
             ELSE Return([i \in 1..Len(models.items) |->
                             dict_get(models.items[i], "name", Str(<< >>))])
      [] models.t = "null" -> Raise(TypeError)
      [] models.t = "str" -> IF models.s = << >> THEN Return(<< >>) ELSE Raise(AttributeError)
      [] models.t = "obj" ->
             IF DOMAIN models.f = {} THEN Return(<< >>) ELSE Raise(AttributeError)

ProbeResult(running, models) == [is_running |-> running, models |-> models]
Unavailable == ProbeResult(FALSE, << >>)

\* the body of the try, lines 13-17
check_try(get) ==
    IF get.kind = "exc" THEN Raise(get.exc)
    ELSE IF get.status = 200
    THEN LET body == json(get.body) IN
         IF body.kind = "raise" THEN body
         ELSE IF body.value.t # "obj" THEN Raise(AttributeError)
         ELSE LET names == names_of(dict_get(body.value, "models", Arr(<< >>))) IN
              IF names.kind = "raise" THEN names
              ELSE Return(ProbeResult(TRUE, names.value))
    ELSE Return(Unavailable)

\* lines 12-19: the try and its one handler
check_ollama_connection(get) ==
    LET r == check_try(get) IN
    IF r.kind = "raise" /\ IsInstance(r.exc, "RequestException") THEN Return(Unavailable)
    ELSE r

-----------------------------------------------------------------------------
(* The model names and the model options, lines 42 and 132-139 *)

\* [m.split(":")[0] for m in available_models], lines 42 and 134
base_names(models) ==
    IF \E i \in 1..Len(models) : models[i].t # "str" THEN Raise(AttributeError)
    ELSE Return([i \in 1..Len(models) |-> SplitFirst(models[i].s)])

FallbackModels == << Llama2, Llama3, Mistral, Codellama, Phi, NeuralChat >>

\* model_options_of without line 135: duplicates are kept
model_options_with_duplicates(models) ==
    IF models # << >> THEN base_names(models) ELSE Return(FallbackModels)

\* lines 132-139
model_options_of(models) ==
    IF models # << >>
    THEN LET b == base_names(models) IN
         IF b.kind = "raise" THEN b ELSE Return(FromKeys(b.value, << >>))
    ELSE Return(FallbackModels)

-----------------------------------------------------------------------------
(* generate_blog_with_ollama, lines 21-111 *)

\* lines 50-63
prompt_of(title, kw, num_words) ==
    PromptA \o title \o PromptB \o kw \o PromptC \o IntToStr(num_words) \o PromptD

\* line 66
generate_url == ollama_api_key \o GeneratePath

\* lines 69-73 and 77: the request requests.post sends
Request(model, prompt) ==
    [url |-> generate_url,
     json |-> [model |-> model, prompt |-> prompt, stream |-> FALSE],
     timeout |-> 300]

\* lines 44-47
model_not_found(model, model_names) ==
    NotFoundA \o model \o NotFoundB
    \o NotFoundC \o (IF model_names # << >> THEN Join(CommaSpace, model_names) ELSE NoneText)
    \o NotFoundD
    \o NotFoundE \o model \o NotFoundF

\* error_msg_of with line 83 lost: the error field of the body is never read
error_msg_unread(response) == Str(Fallback404)

\* lines 81-85: the inner try and its bare except
error_msg_of(response) ==
    LET error_data == json(response.body) IN
    IF error_data.kind = "raise" \/ error_data.value.t # "obj" THEN Str(Fallback404)
    ELSE dict_get(error_data.value, "error", Str(DefaultError404))

\* lines 87-91
not_found_404(error_msg, model) ==
    Err404A \o Format(error_msg) \o Err404B \o model \o Err404C \o model \o Err404D
    \o generate_url

\* generate_try reading the field "text" at line 97 in place of "response"
generate_try_wrong_field(model, post) ==
    IF post.kind = "exc" THEN Raise(post.exc)
    ELSE IF post.status = 404 THEN Return(Str(not_found_404(error_msg_of(post), model)))
    ELSE LET status == raise_for_status(post, generate_url) IN
         IF status.kind = "raise" THEN status
         ELSE LET result == json(post.body) IN
              IF result.kind = "raise" THEN result
              ELSE IF result.value.t # "obj" THEN Raise(AttributeError)
              ELSE Return(dict_get(result.value, "text", Str(NoResponseText)))

\* lines 77-97: the body of the try, given what the POST came back with
generate_try(model, post) ==
    IF post.kind = "exc" THEN Raise(post.exc)
    ELSE IF post.status = 404 THEN Return(Str(not_found_404(error_msg_of(post), model)))
    ELSE LET status == raise_for_status(post, generate_url) IN
         IF status.kind = "raise" THEN status
         ELSE LET result == json(post.body) IN
              IF result.kind = "raise" THEN result
              ELSE IF result.value.t # "obj" THEN Raise(AttributeError)
              ELSE Return(dict_get(result.value, "response", Str(NoResponseText)))

\* generate_except with the handlers of lines 99 and 103 in the other order
generate_except_connection_first(r) ==
    IF r.kind # "raise" THEN r
    ELSE IF IsInstance(r.exc, "ConnectionError")
    THEN Return(Str(ConnErrA \o ollama_api_key \o ConnErrB))
    ELSE IF IsInstance(r.exc, "Timeout") THEN Return(Str(TimeoutText))
    ELSE IF IsInstance(r.exc, "RequestException")
    THEN Return(Str(GenericA \o r.exc.msg \o GenericB \o ollama_api_key))
    ELSE r

\* lines 99-111: the three handlers, in the order they are tried
generate_except(r) ==
    IF r.kind # "raise" THEN r
    ELSE IF IsInstance(r.exc, "Timeout") THEN Return(Str(TimeoutText))
    ELSE IF IsInstance(r.exc, "ConnectionError")
    THEN Return(Str(ConnErrA \o ollama_api_key \o ConnErrB))
    ELSE IF IsInstance(r.exc, "RequestException")
    THEN Return(Str(GenericA \o r.exc.msg \o GenericB \o ollama_api_key))
    ELSE r

Call(out, sent) == [out |-> out, posts |-> sent]

\* generate_after_probe without the test of line 36
generate_after_probe_unguarded(title, kw, num_words, model, is_running, models, post) ==
    LET model_names == base_names(models) IN
    IF model_names.kind = "raise" THEN Call(model_names, << >>)
    ELSE IF ~In(model, model_names.value)
    THEN Call(Return(Str(model_not_found(model, model_names.value))), << >>)
    ELSE Call(generate_except(generate_try(model, post)),
              << Request(model, prompt_of(title, kw, num_words)) >>)

\* lines 36-111: the call from the probe result on
generate_after_probe(title, kw, num_words, model, is_running, models, post) ==
    IF ~is_running THEN Call(Return(Str(CannotConnectText)), << >>)
    ELSE LET model_names == base_names(models) IN
         IF model_names.kind = "raise" THEN Call(model_names, << >>)
         ELSE IF ~In(model, model_names.value)
         THEN Call(Return(Str(model_not_found(model, model_names.value))), << >>)
         ELSE Call(generate_except(generate_try(model, post)),
                   << Request(model, prompt_of(title, kw, num_words)) >>)

\* generate_blog_with_ollama taking the service to be running whatever the probe said
generate_blog_assuming_running(title, kw, num_words, model, get, post) ==
    LET c == check_ollama_connection(get) IN
    IF c.kind = "raise" THEN Call(c, << >>)
    ELSE generate_after_probe(title, kw, num_words, model, TRUE, c.value.models, post)

\* lines 21-111; get and post are what the service answers to the GET and to the POST
generate_blog_with_ollama(title, kw, num_words, model, get, post) ==
    LET c == check_ollama_connection(get) IN
    IF c.kind = "raise" THEN Call(c, << >>)
    ELSE generate_after_probe(title, kw, num_words, model, c.value.is_running,
                              c.value.models, post)

\* the call with its probe removed: it takes the result of the sidebar probe
generate_without_probe(title, kw, num_words, model, connected, models, post) ==
    generate_after_probe(title, kw, num_words, model, connected, models, post)

\* line 167
is_error(text) == StartsWith(text, MarkerCross) \/ StartsWith(text, MarkerClock)

\* line 177
file_name_of(title) == Replace(title, " ", "_") \o BlogTxt

-----------------------------------------------------------------------------
(* The script *)

NoOutcome == [kind |-> "none", value |-> Null, exc |-> NoExc]
NoDownload == [data |-> << >>, file_name |-> << >>]

Init ==
    /\ pc = "sidebar"
    /\ sidebar_get = NoReply
    /\ sidebar_probe = NoOutcome
    /\ is_connected = FALSE
    /\ available_models = << >>
    /\ model_options = << >>
    /\ ollama_model = << >>
    /\ blog_title = << >>
    /\ keywords = << >>
    /\ numb_words = 250
    /\ submit_button = FALSE
    /\ probe = NoOutcome
    /\ post_reply = NoReply
    /\ posts = << >>
    /\ blog_content = NoOutcome
    /\ alt_content = NoOutcome
    /\ alt_posts = << >>
    /\ view = "none"
    /\ download = NoDownload
    /\ exception = NoExc

\* lines 113-151: the probe, the form, the model options and the button
Sidebar ==
    /\ pc = "sidebar"
    /\ \E get \in GetOutcomes :
         LET c == check_ollama_connection(get)
             o == IF c.kind = "return" THEN model_options_of(c.value.models) ELSE c
         IN /\ sidebar_get' = get
            /\ sidebar_probe' = c
            /\ IF o.kind = "raise"
               THEN /\ pc' = "crashed"
                    /\ exception' = o.exc
                    /\ is_connected' = (c.kind = "return" /\ c.value.is_running)
                    /\ available_models' = IF c.kind = "return" THEN c.value.models ELSE << >>
                    /\ UNCHANGED << model_options, ollama_model, blog_title, keywords,
                                    numb_words, submit_button >>
               ELSE /\ pc' = "main"
                    /\ is_connected' = c.value.is_running
                    /\ available_models' = c.value.models
                    /\ model_options' = o.value
                    /\ \E f \in Forms, i \in 1..Len(o.value), b \in BOOLEAN :
                         /\ blog_title' = f.blog_title
                         /\ keywords' = f.keywords
                         /\ numb_words' = f.numb_words
                         /\ ollama_model' = o.value[i]
                         /\ submit_button' = b
                    /\ UNCHANGED exception
    /\ UNCHANGED << probe, post_reply, posts, blog_content, alt_content, alt_posts, view,
                    download >>

\* lines 180-181: the button was not pressed
Info ==
    /\ pc = "main"
    /\ ~submit_button
    /\ pc' = "shown"
    /\ view' = "info"
    /\ UNCHANGED << sidebar_get, sidebar_probe, is_connected, available_models, model_options,
                    ollama_model, blog_title, keywords, numb_words, submit_button, probe,
                    post_reply, posts, blog_content, alt_content, alt_posts, download,
                    exception >>

\* lines 154-156: the button was pressed with no title
Warning ==
    /\ pc = "main"
    /\ submit_button
    /\ blog_title = << >>
    /\ pc' = "shown"
    /\ view' = "warning"
    /\ UNCHANGED << sidebar_get, sidebar_probe, is_connected, available_models, model_options,
                    ollama_model, blog_title, keywords, numb_words, submit_button, probe,
                    post_reply, posts, blog_content, alt_content, alt_posts, download,
                    exception >>

\* lines 157-179: the call and the display of what it returned
Submit ==
    /\ pc = "main"
    /\ submit_button
    /\ blog_title # << >>
    /\ \E get \in GetOutcomes, post \in PostOutcomes :
         LET g == generate_blog_with_ollama(blog_title, keywords, numb_words, ollama_model,
                                            get, post)
             a == generate_without_probe(blog_title, keywords, numb_words, ollama_model,
                                         is_connected, available_models, post)
         IN /\ probe' = check_ollama_connection(get)
            /\ posts' = g.posts
            /\ post_reply' = IF g.posts # << >> THEN post ELSE NoReply
            /\ blog_content' = g.out
            /\ alt_content' = a.out
            /\ alt_posts' = a.posts
            /\ IF g.out.kind = "raise"
               THEN pc' = "crashed" /\ exception' = g.out.exc /\ UNCHANGED << view, download >>
               ELSE IF g.out.value.t # "str"
               THEN pc' = "crashed" /\ exception' = AttributeError
                    /\ UNCHANGED << view, download >>
               ELSE IF is_error(g.out.value.s)
               THEN pc' = "shown" /\ view' = "error" /\ UNCHANGED << download, exception >>
               ELSE /\ pc' = "shown"
                    /\ view' = "post"
                    /\ download' = [data |-> g.out.value.s,
                                    file_name |-> file_name_of(blog_title)]
                    /\ UNCHANGED exception
    /\ UNCHANGED << sidebar_get, sidebar_probe, is_connected, available_models, model_options,
                    ollama_model, blog_title, keywords, numb_words, submit_button >>

\* Streamlit runs the script again from the top: nothing is kept from the last run
Rerun ==
    /\ pc \in {"shown", "crashed"}
    /\ pc' = "sidebar"
    /\ sidebar_get' = NoReply
    /\ sidebar_probe' = NoOutcome
    /\ is_connected' = FALSE
    /\ available_models' = << >>
    /\ model_options' = << >>
    /\ ollama_model' = << >>
    /\ blog_title' = << >>
    /\ keywords' = << >>
    /\ numb_words' = 250
    /\ submit_button' = FALSE
    /\ probe' = NoOutcome
    /\ post_reply' = NoReply
    /\ posts' = << >>
    /\ blog_content' = NoOutcome
    /\ alt_content' = NoOutcome
    /\ alt_posts' = << >>
    /\ view' = "none"
    /\ download' = NoDownload
    /\ exception' = NoExc

Next == Sidebar \/ Info \/ Warning \/ Submit \/ Rerun

Spec == Init /\ [][Next]_vars

-----------------------------------------------------------------------------
(* What the claims speak of *)

\* sub occurs in s
Contains(s, sub) ==
    \E i \in 0..(Len(s) - Len(sub)) : SubSeq(s, i + 1, i + Len(sub)) = sub

\* b is the base name of name: the text of name before its first colon
IsBaseOf(b, name) ==
    /\ StartsWith(name, b)
    /\ \A i \in 1..Len(b) : b[i] # ":"
    /\ Len(b) = Len(name) \/ name[Len(b) + 1] = ":"

\* generate_blog_with_ollama was called in this run
Called == blog_content.kind # "none"

\* the call returned a text
ReturnedText == blog_content.kind = "return" /\ blog_content.value.t = "str"

\* the text begins with one of the two markers
Marked(s) == StartsWith(s, MarkerCross) \/ StartsWith(s, MarkerClock)

\* the probe of the call reported the service running, with a list of names
ProbeUp ==
    /\ probe.kind = "return"
    /\ probe.value.is_running
    /\ \A i \in 1..Len(probe.value.models) : probe.value.models[i].t = "str"

\* the requested model is the base name of a probed name
ModelProbed ==
    \E i \in 1..Len(probe.value.models) : IsBaseOf(ollama_model, probe.value.models[i].s)

\* the base name of the requested model is the base name of a probed name
BaseProbed ==
    \E i \in 1..Len(probe.value.models) :
        \E b \in {SubSeq(ollama_model, 1, n) : n \in 0..Len(ollama_model)} :
            IsBaseOf(b, ollama_model) /\ IsBaseOf(b, probe.value.models[i].s)

Posted == posts # << >>
PostThrew == Posted /\ post_reply.kind = "exc"
PostStatus(n) == Posted /\ post_reply.kind = "resp" /\ post_reply.status = n
HasField(body, k) ==
    body.kind = "json" /\ body.value.t = "obj" /\ k \in DOMAIN body.value.f

\* the probed names, in probe order, each base name once
RECURSIVE Alternatives(_, _)
Alternatives(names, i) ==
    IF i > Len(names) THEN << >>
    ELSE LET b == CHOOSE x \in {SubSeq(names[i], 1, n) : n \in 0..Len(names[i])} :
                      IsBaseOf(x, names[i])
         IN IF \E j \in 1..(i - 1) : IsBaseOf(b, names[j])
            THEN Alternatives(names, i + 1)
            ELSE << b >> \o Alternatives(names, i + 1)

-----------------------------------------------------------------------------
(* The claims *)

\* C1: every failure outcome of generate_blog_with_ollama (service unreachable, model not
\* found, 404, timeout, connection failure, generic request failure, a 200 answer with no
\* "response" field) is returned as a text that begins with a marker, and is shown through
\* the error branch, never through the branch with the download button.
C1_FailuresAreMarked ==
    (/\ Called
     /\ \/ probe = Return(Unavailable)
        \/ ProbeUp /\ ~ModelProbed
        \/ PostThrew
        \/ Posted /\ post_reply.kind = "resp" /\ post_reply.status >= 400
        \/ PostStatus(200) /\ post_reply.body.kind = "json"
                           /\ post_reply.body.value.t = "obj"
                           /\ ~HasField(post_reply.body, "response"))
    => (ReturnedText /\ Marked(blog_content.value.s) /\ view = "error")

\* C2: generate_blog_with_ollama never raises: whatever the GET of the probe and the POST
\* come back with, the call returns.
C2_NeverRaises == Called => blog_content.kind = "return"

\* C3: when the probe of the call reports the service unavailable, the call returns the
\* service-unreachable message and no POST is sent during the call.
C3_ProbeDownNoPost ==
    (Called /\ probe = Return(Unavailable))
    => (/\ blog_content = Return(Str(CannotConnectText))
        /\ posts = << >>
        /\ post_reply = NoReply
        /\ view = "error")

C3_Witness ==
    /\ pc = "shown"
    /\ Called
    /\ probe = Return(Unavailable)
    /\ is_connected
    /\ blog_content.value.s = CannotConnectText

\* C4: when the base name of the requested model is not among the probed names, the call
\* returns the model-not-found message, which names the requested model and lists the
\* probed alternatives as base names, in probe order, each once, and no POST is sent.
C4_NotFoundListsDeduplicated ==
    (Called /\ ProbeUp /\ ~BaseProbed)
    => LET names == [i \in 1..Len(probe.value.models) |-> probe.value.models[i].s]
           listed == IF names = << >> THEN NoneText
                     ELSE Join(CommaSpace, Alternatives(names, 1))
       IN /\ blog_content =
               Return(Str(NotFoundA \o ollama_model \o NotFoundB \o NotFoundC \o listed
                          \o NotFoundD \o NotFoundE \o ollama_model \o NotFoundF))
          /\ posts = << >>

\* C5: check_ollama_connection never raises: on a transport failure or a status other
\* than 200 it returns (False, []), and on a status of 200 it returns True with the list
\* of the "name" fields in service order, whatever body the service sends.
C5_ProbeNeverRaises ==
    (sidebar_get.kind # "none")
    => /\ sidebar_probe.kind = "return"
       /\ (sidebar_get.kind = "exc" \/ sidebar_get.status # 200)
            => sidebar_probe.value = Unavailable
       /\ (sidebar_get.kind = "resp" /\ sidebar_get.status = 200)
            => /\ sidebar_probe.value.is_running
               /\ \A l \in TagLists \cup {ExampleTags} :
                    sidebar_get.body = TagsBody(l)
                    => sidebar_probe.value.models = [i \in 1..Len(l) |-> Str(l[i])]

\* C6: when the POST comes back with status 404, the call returns a not-found message
\* that is not the generic failure message: it holds the text of the "error" field when
\* the body is a JSON object with one, and the fallback phrase when the body is not JSON;
\* nothing is raised, and the text raise_for_status would give is not in it.
C6_NotFound404 ==
    PostStatus(404)
    => /\ ReturnedText
       /\ LET s == blog_content.value.s IN
          /\ StartsWith(s, Err404A)
          /\ ~StartsWith(s, GenericA)
          /\ ~Contains(s, ClientErrorText)
          /\ HasField(post_reply.body, "error")
               => Contains(s, post_reply.body.value.f.error.s)
          /\ post_reply.body.kind = "notjson" => Contains(s, Fallback404)
       /\ view = "error"

C6_Witness ==
    /\ PostStatus(404)
    /\ post_reply.body = Json(Obj([error |-> Str(ModelMissing)]))
    /\ ReturnedText
    /\ Contains(blog_content.value.s, ModelMissing)
    /\ pc = "shown"

\* the three messages of the handlers of lines 99-111
IsTimeoutMessage(s) == s = TimeoutText
IsConnectionMessage(s) == s = ConnErrA \o ollama_api_key \o ConnErrB
IsGenericMessage(s) ==
    /\ StartsWith(s, GenericA)
    /\ Len(s) >= Len(GenericA) + Len(GenericB \o ollama_api_key)
    /\ SubSeq(s, Len(s) - Len(GenericB \o ollama_api_key) + 1, Len(s))
         = GenericB \o ollama_api_key
MessageClasses(s) ==
    {c \in {"timeout", "connection", "generic"} :
        \/ c = "timeout" /\ IsTimeoutMessage(s)
        \/ c = "connection" /\ IsConnectionMessage(s)
        \/ c = "generic" /\ IsGenericMessage(s)}

\* C7: a POST that times out gives the timeout message, one that fails to connect the
\* connection message, and any other transport exception (a status of 400 or more other
\* than 404 among them) the generic message with the text of the exception; each result is
\* exactly one of the three messages, and an exception that is both a connection error
\* and a timeout gives the timeout message.
C7_TransportClassified ==
    /\ PostThrew
       => /\ ReturnedText
          /\ LET s == blog_content.value.s
                 e == post_reply.exc
             IN /\ MessageClasses(s) =
                     IF e.type \in {"ReadTimeout", "ConnectTimeout"} THEN {"timeout"}
                     ELSE IF e.type = "ConnectionError" THEN {"connection"}
                     ELSE {"generic"}
                /\ e.type = "TooManyRedirects" => Contains(s, e.msg)
    /\ (Posted /\ post_reply.kind = "resp" /\ post_reply.status >= 400
               /\ post_reply.status # 404)
       => /\ ReturnedText
          /\ MessageClasses(blog_content.value.s) = {"generic"}
          /\ Contains(blog_content.value.s, IntToStr(post_reply.status))
          /\ Contains(blog_content.value.s, post_reply.reason \o ForUrlText)

C7_Witness ==
    /\ PostThrew
    /\ post_reply.exc.type = "ConnectTimeout"
    /\ ReturnedText
    /\ blog_content.value.s = TimeoutText
    /\ view = "error"

\* C8: when the probe reports the service running, the requested model is among the
\* probed base names and the POST comes back with status 200 and a JSON object whose
\* "response" field is the text t, exactly one POST was sent and the call returns t as it
\* is; when the text has no marker it is shown as the post and offered for download.
C8_SuccessReturnsText ==
    /\ (Called /\ ProbeUp /\ ModelProbed)
       => (Len(posts) = 1 /\ posts[1].json.model = ollama_model /\ post_reply.kind # "none")
    /\ (PostStatus(200) /\ HasField(post_reply.body, "response")
                        /\ post_reply.body.value.f.response.t = "str")
       => /\ blog_content = Return(post_reply.body.value.f.response)
          /\ ~Marked(blog_content.value.s)
               => (view = "post" /\ download.data = post_reply.body.value.f.response.s)

C8_Witness ==
    /\ PostStatus(200)
    /\ post_reply.body = Json(Obj([response |-> Str(HelloWorld)]))
    /\ blog_content = Return(Str(HelloWorld))
    /\ view = "post"

C10_ModelOptions ==
    (model_options # << >>)
    => /\ In(ollama_model, model_options)
       /\ available_models = << >> => model_options = FallbackModels
       /\ available_models # << >>
            => LET n == Len(available_models)
                   first(b) == CHOOSE i \in 1..n :
                                  /\ IsBaseOf(b, available_models[i].s)
                                  /\ \A j \in 1..(i - 1) : ~IsBaseOf(b, available_models[j].s)
               IN /\ \A k \in 1..Len(model_options) :
                       \E i \in 1..n : IsBaseOf(model_options[k], available_models[i].s)
                  /\ \A i \in 1..n :
                       \E k \in 1..Len(model_options) :
                           IsBaseOf(model_options[k], available_models[i].s)
                  /\ \A k, l \in 1..Len(model_options) :
                       k < l => first(model_options[k]) < first(model_options[l])
       /\ available_models = [i \in 1..3 |-> Str(ExampleTags[i])]
            => model_options = << Llama2, Mistral >>

C10_Witness ==
    /\ pc = "main"
    /\ available_models = [i \in 1..3 |-> Str(ExampleTags[i])]
    /\ model_options = << Llama2, Mistral >>
    /\ ollama_model = Mistral

=============================================================================
